---- MODULE Spec2Model ----
(***************************************************************************)
(* A model of md2moodle.py: the line grammar (section 1), the Quiz         *)
(* document and its validation (section 2), the generic state machine      *)
(* (section 3), the markdown parser built on it (section 4), and of the    *)
(* XML exporter the emoticon neutralisation and the order of               *)
(* serialisation.  Spec is a run of MarkdownParser.parse; SpecQuiz and     *)
(* SpecMachine are the classes Quiz and StateMachine used on their own;    *)
(* SpecEmoticons is the emoticon neutralisation applied to a text.         *)
(*                                                                         *)
(* Text is modelled as a sequence of one-character strings, so that the    *)
(* regular expressions of the source can be evaluated character by         *)
(* character.  A Python value that may be None is modelled as a sequence   *)
(* of length 0 (None) or 1 (the value).                                    *)
(***************************************************************************)
EXTENDS Integers, Sequences, FiniteSets, TLC

VARIABLES
    quiz,          \* the Quiz object: the dict items and its attributes
    state,         \* StateMachine.state
    md_lines,      \* parse(): the lines of md_lines the loop has taken so far
    md_row,        \* parse(): the loop variable, after both rstrip calls
    line_number,   \* parse(): the line counter
    at_end,        \* parse(): the loop has taken the last element of md_lines,
                   \* the "EOF" appended after the lines of the file
    pc,            \* parse(): "loop", "done" (loop exhausted) or "error"
    error,         \* the exception that ended parse(), or NoError
    emo_text,      \* the text handed to _sanitize_moodle_emoticons
    emo_out,       \* the results of its successive applications
    handlers,      \* StateMachine.handlers: the handler of each state name
    endStates,     \* StateMachine.endStates
    main_pc,       \* the main program: "parse", "export" (the exporter is
                   \* constructed), "end" or "except"
    exporter,      \* the main program: the XMLExporter, or None
    main_error,    \* the exception the main program caught, or NoError
    xml_files,     \* the files export() has written, in the order of writing
    line_tests,    \* the names of the is_ helpers that are true of md_row
    answer_text,   \* the text handed to _render_answer
    rendered       \* what _render_answer returned, or None

vars == <<quiz, state, md_lines, md_row, line_number, at_end, pc, error, emo_text, emo_out,
          handlers, endStates, main_pc, exporter, main_error, xml_files,
          line_tests, answer_text, rendered>>

parseVars == <<quiz, state, md_lines, md_row, line_number, at_end, pc, error>>
emoVars == <<emo_text, emo_out>>
machineVars == <<handlers, endStates>>
exportVars == <<main_pc, exporter, main_error, xml_files>>
renderVars == <<answer_text, rendered>>

-----------------------------------------------------------------------------
(* Bounds of the model *)

\* the largest number of real input lines of a document
MaxLines == 5

\* the longest text handed to the emoticon neutralisation
MaxTextLen == 3

\* the number of times the emoticon neutralisation is applied to its own result
MaxApplications == 2

\* a caller of Quiz begins at most this many sections,
MaxSections == 2

\* this many questions in all,
MaxQuestions == 2

\* and gives a question at most this many answers
MaxAnswers == 2

\* a caller of StateMachine registers at most this many terminal states
MaxEndStates == 2

\* and calls run at most this many times
MaxRuns == 2

\* the longest answer text handed to _render_answer
MaxAnswerLen == 4

\* the longest line handed to the helpers of the regular expressions
MaxLineLen == 4

-----------------------------------------------------------------------------
(* Python's None and optional values *)

None == <<>>

Some(v) == <<v>>

-----------------------------------------------------------------------------
(* Section 1 - the regular expressions and their helpers *)

NEW_LINE == "\n"

\* the grave accent U+0060, which a TLA+ string cannot hold: the one character
\* of the model's texts that is written by name
BACKTICK == "BACKTICK"

\* the characters \s matches, among those the model's texts are made of
IsSpace(c) == c \in {" ", "\t", "\n", "\r", "\f"}

\* the length of the longest prefix \s* can take
LeadingSpaces(s) ==
    CHOOSE k \in 0..Len(s) :
        /\ \A i \in 1..k : IsSpace(s[i])
        /\ (k = Len(s) \/ ~IsSpace(s[k + 1]))

\* (.*)$ from position from on: '.' matches everything but a newline
DotStarToEnd(s, from) == \A i \in from..Len(s) : s[i] # NEW_LINE

Rest(s, from) == SubSeq(s, from, Len(s))

\* the number of leading dashes of s
LeadingDashes(s) ==
    CHOOSE k \in 0..Len(s) :
        /\ \A i \in 1..k : s[i] = "-"
        /\ (k = Len(s) \/ s[k + 1] # "-")

\* HEADER_PATTERN = ^\s*# (.*)$, group 1
get_header(string) ==
    LET k == LeadingSpaces(string) IN
    IF /\ Len(string) >= k + 2
       /\ string[k + 1] = "#"
       /\ string[k + 2] = " "
       /\ DotStarToEnd(string, k + 3)
    THEN Some(Rest(string, k + 3))
    ELSE None

\* a variant of the pattern that takes one dash or more: ^-+\s*$
get_question_oneDash(string) ==
    LET d == LeadingDashes(string) IN
    IF d >= 1 /\ \A i \in (d + 1)..Len(string) : IsSpace(string[i])
    THEN Some(<<>>)
    ELSE None

\* QUESTION_PATTERN = ^-{3,}\s*$, and the constant "" returned on a match
get_question(string) ==
    LET d == LeadingDashes(string) IN
    IF d >= 3 /\ \A i \in (d + 1)..Len(string) : IsSpace(string[i])
    THEN Some(<<>>)
    ELSE None

\* CORRECT_ANSWER_PATTERN = ^(\s*)-(\s)!(.*)$, group 3
get_correct_answer(string) ==
    LET k == LeadingSpaces(string) IN
    IF /\ Len(string) >= k + 3
       /\ string[k + 1] = "-"
       /\ IsSpace(string[k + 2])
       /\ string[k + 3] = "!"
       /\ DotStarToEnd(string, k + 4)
    THEN Some(Rest(string, k + 4))
    ELSE None

\* WRONG_ANSWER_PATTERN = ^(\s*)-(\s)(.*)$, group 3
get_wrong_answer(string) ==
    LET k == LeadingSpaces(string) IN
    IF /\ Len(string) >= k + 2
       /\ string[k + 1] = "-"
       /\ IsSpace(string[k + 2])
       /\ DotStarToEnd(string, k + 3)
    THEN Some(Rest(string, k + 3))
    ELSE None

\* FEEDBACK_PATTERN = ^(\s*)>(.*)$, group 2
get_answer_feedback(string) ==
    LET k == LeadingSpaces(string) IN
    IF /\ Len(string) >= k + 1
       /\ string[k + 1] = ">"
       /\ DotStarToEnd(string, k + 2)
    THEN Some(Rest(string, k + 2))
    ELSE None

is_header(string) == get_header(string) # None

is_question(string) == get_question(string) # None

is_correct_answer(string) == get_correct_answer(string) # None

is_wrong_answer(string) == get_wrong_answer(string) # None

is_answer(string) == is_correct_answer(string) \/ is_wrong_answer(string)

is_feedback(string) == get_answer_feedback(string) # None

\* EMPTY_LINE_PATTERN = ^\s*$
is_blank(string) == LeadingSpaces(string) = Len(string)

\* BLOCKCODE_PATTERN = ^(\s*)```(.*)$
is_blockcode(string) ==
    LET k == LeadingSpaces(string) IN
    /\ Len(string) >= k + 3
    /\ string[k + 1] = BACKTICK /\ string[k + 2] = BACKTICK /\ string[k + 3] = BACKTICK
    /\ DotStarToEnd(string, k + 4)

EOF == <<"E", "O", "F">>

is_eof(string) == string = EOF

-----------------------------------------------------------------------------
(* Section 0 - Configuration *)

\* answer weights are percentages; the model keeps them as integers in units
\* of 10^-7 (the 7 decimal digits of round(.., 7)), so 100.0 is 100 * WeightUnit
WeightUnit == 10000000

\* the values of config['single_answer_penalty_weight'] of the model: the
\* default 0 and 0.25, in the same fixed-point unit
PenaltyValues == {0, WeightUnit \div 4}

-----------------------------------------------------------------------------
(* Exceptions *)

NoError == [kind |-> "", msg |-> "", arg |-> <<>>]

TransitionError(msg) == [kind |-> "TransitionError", msg |-> msg, arg |-> <<>>]

\* QuizError("No correct answer(s) for %s" % (question['text']))
QuizError(text) == [kind |-> "QuizError", msg |-> "No correct answer(s) for %s", arg |-> text]

InitializationError(msg) == [kind |-> "InitializationError", msg |-> msg, arg |-> <<>>]

ValueError(msg) == [kind |-> "ValueError", msg |-> msg, arg |-> <<>>]

\* None.upper() in StateMachine.run
AttributeError == [kind |-> "AttributeError", msg |-> "'NoneType' object has no attribute 'upper'", arg |-> <<>>]

\* self.current_question['answers'][-1] on an empty list
IndexError == [kind |-> "IndexError", msg |-> "list index out of range", arg |-> <<>>]

-----------------------------------------------------------------------------
(* Section 2 - the Quiz class                                              *)
(*                                                                         *)
(* A Quiz is a dict (items: the keys in insertion order, each with a       *)
(* reference to a section list) with attributes.  The section lists live   *)
(* in heap, so that the list self.section and the list stored under a      *)
(* caption are the same object, and a list no caption refers to any more   *)
(* is still there.  current_question is None for the initial {} and        *)
(* otherwise the place <<list, index>> of the question object.             *)

\* Quiz.__init__: self.section = [] is the first list of the heap
NewQuiz(config) ==
    [ items            |-> <<>>,
      heap             |-> << <<>> >>,
      section          |-> 1,
      current_question |-> None,
      config           |-> config,
      is_valid         |-> FALSE ]

\* self[key] = value: a key already present keeps its place
DictSet(items, key, value) ==
    IF \E i \in 1..Len(items) : items[i].key = key
    THEN [i \in 1..Len(items) |->
            IF items[i].key = key THEN [key |-> key, value |-> value] ELSE items[i]]
    ELSE Append(items, [key |-> key, value |-> value])

consume_header(q, line) ==
    LET new == Len(q.heap) + 1 IN
    [q EXCEPT !.heap = Append(@, <<>>),
              !.section = new,
              !.items = DictSet(@, get_header(line)[1], new)]

NewQuestion(text) ==
    [text |-> text, answers |-> <<>>, single |-> None, correct_count |-> None]

start_question(q) ==
    [q EXCEPT !.heap[q.section] = Append(@, NewQuestion(<<>>)),
              !.current_question = Some(<<q.section, Len(q.heap[q.section]) + 1>>)]

consume_question(q, line) ==
    [q EXCEPT !.heap[q.section] = Append(@, NewQuestion(get_question(line)[1])),
              !.current_question = Some(<<q.section, Len(q.heap[q.section]) + 1>>)]

\* the question object self.current_question refers to
CurrentQuestion(q) == q.heap[q.current_question[1][1]][q.current_question[1][2]]

SetCurrentQuestion(q, question) ==
    [q EXCEPT !.heap[q.current_question[1][1]][q.current_question[1][2]] = question]

append_to_question(q, line) ==
    SetCurrentQuestion(q, [CurrentQuestion(q) EXCEPT !.text = @ \o line \o <<NEW_LINE>>])

NewAnswer(text, correct) ==
    [text |-> text, correct |-> correct, feedback |-> None, weight |-> None]

consume_answer(q, line) ==
    IF is_correct_answer(line)
    THEN SetCurrentQuestion(q, [CurrentQuestion(q) EXCEPT
             !.answers = Append(@, NewAnswer(get_correct_answer(line)[1], TRUE))])
    ELSE IF is_wrong_answer(line)
    THEN SetCurrentQuestion(q, [CurrentQuestion(q) EXCEPT
             !.answers = Append(@, NewAnswer(get_wrong_answer(line)[1], FALSE))])
    ELSE q

\* a variant that takes answers[0]
consume_feedback_first(q, line) ==
    SetCurrentQuestion(q, [CurrentQuestion(q) EXCEPT
        !.answers[1].feedback = Some(get_answer_feedback(line)[1])])

\* cur_answer = answers[-1]; the caller sees an IndexError when there is none
consume_feedback(q, line) ==
    LET n == Len(CurrentQuestion(q).answers) IN
    SetCurrentQuestion(q, [CurrentQuestion(q) EXCEPT
        !.answers[n].feedback = Some(get_answer_feedback(line)[1])])

\* len([x for x in answers if x['correct']])
CorrectAnswerCount(answers) ==
    Cardinality({i \in 1..Len(answers) : answers[i].correct})

\* a variant that counts every answer, correct or not
current_question_has_answers(q) ==
    Len(CurrentQuestion(q).answers) >= 1

current_question_has_correct_answers(q) ==
    CorrectAnswerCount(CurrentQuestion(q).answers) >= 1

\* a variant that rounds to 2 decimal digits
RoundedWeight_twoDigits(n) == ((2 * 100 * 100 + n) \div (2 * n)) * (WeightUnit \div 100)

\* round(100.0 / correct_answer_count, 7), in units of 10^-7: the nearest
\* integer to 100 * WeightUnit / n (no tie arises for n below 1024)
RoundedWeight(n) == (2 * 100 * WeightUnit + n) \div (2 * n)

\* a variant whose filter is inverted: it counts the answers that are not correct
CompleteQuestion_countsWrong(question, config) ==
    LET n == Len(question.answers) - CorrectAnswerCount(question.answers) IN
    [question EXCEPT
        !.single = Some(n = 1),
        !.correct_count = Some(n),
        !.answers = [i \in 1..Len(question.answers) |->
            [question.answers[i] EXCEPT !.weight =
                IF question.answers[i].correct THEN Some(RoundedWeight(1)) ELSE Some(0)]]]

\* the body of the loop of _complete for a question that has a correct answer
CompleteQuestion(question, config) ==
    LET correct_answer_count == CorrectAnswerCount(question.answers)
        single == (correct_answer_count = 1)
        weight == RoundedWeight(correct_answer_count)
    IN  [question EXCEPT
            !.single = Some(single),
            !.correct_count = Some(correct_answer_count),
            !.answers = [i \in 1..Len(question.answers) |->
                [question.answers[i] EXCEPT !.weight =
                    IF question.answers[i].correct THEN Some(weight)
                    ELSE IF single THEN Some(config * (-1))
                    ELSE Some(0)]]]

\* _complete from question j of the section of item i on, in the order of
\* "for key in self" and "for question in section"
RECURSIVE CompleteFrom(_, _, _)
CompleteFrom(q, i, j) ==
    IF i > Len(q.items) THEN [quiz |-> q, error |-> NoError]
    ELSE LET ref == q.items[i].value IN
         IF j > Len(q.heap[ref]) THEN CompleteFrom(q, i + 1, 1)
         ELSE LET question == q.heap[ref][j] IN
              IF CorrectAnswerCount(question.answers) < 1
              THEN [quiz  |-> [q EXCEPT !.is_valid = FALSE],
                    error |-> QuizError(question.text)]
              ELSE CompleteFrom(
                      [q EXCEPT !.heap[ref][j] = CompleteQuestion(question, q.config)],
                      i, j + 1)

_complete(q) == CompleteFrom(q, 1, 1)

validate(q) ==
    LET r == _complete(q) IN
    IF r.error # NoError THEN r
    ELSE [quiz |-> [r.quiz EXCEPT !.is_valid = TRUE], error |-> NoError]

-----------------------------------------------------------------------------
(* Section 3 - the generic state machine, and section 4 - the markdown     *)
(* parser.  A handler returns the name of the next state or raises; its    *)
(* outcome is the quiz as the handler left it, the returned name (None     *)
(* for a handler that returns nothing) and the exception, if any.          *)

Goto(q, name) == [quiz |-> q, state |-> Some(name), error |-> NoError]

Raise(q, e) == [quiz |-> q, state |-> None, error |-> e]

\* a variant that takes any other line as the first line of a question
_state_start_takesText(q, line_text, n) ==
    IF is_blank(line_text) THEN Goto(q, "start")
    ELSE IF is_header(line_text) THEN Goto(consume_header(q, line_text), "parse_header")
    ELSE IF is_question(line_text) THEN Goto(consume_question(q, line_text), "parse_question")
    ELSE Goto(append_to_question(start_question(q), line_text), "parse_question")

_state_start(q, line_text, n) ==
    IF is_blank(line_text) THEN Goto(q, "start")
    ELSE IF is_header(line_text) THEN Goto(consume_header(q, line_text), "parse_header")
    ELSE IF is_question(line_text) THEN Goto(consume_question(q, line_text), "parse_question")
    ELSE Raise(q, TransitionError("Expecting a header or a question"))

\* a variant that begins the question and drops the line
_state_parse_header_dropsText(q, line_text, n) ==
    IF is_blank(line_text) THEN Goto(q, "parse_header")
    ELSE IF is_question(line_text) THEN Goto(start_question(q), "parse_question")
    ELSE IF is_answer(line_text) \/ is_feedback(line_text) \/ is_eof(line_text)
    THEN Raise(q, TransitionError("Expecting a question"))
    ELSE Goto(start_question(q), "parse_question")

_state_parse_header(q, line_text, n) ==
    IF is_blank(line_text) THEN Goto(q, "parse_header")
    ELSE IF is_question(line_text) THEN Goto(start_question(q), "parse_question")
    ELSE IF is_answer(line_text) \/ is_feedback(line_text) \/ is_eof(line_text)
    THEN Raise(q, TransitionError("Expecting a question"))
    ELSE Goto(append_to_question(start_question(q), line_text), "parse_question")

\* a variant that moves on at an answer line without recording the answer
_state_parse_question_dropsAnswer(q, line_text, n) ==
    IF is_blank(line_text) THEN Goto(append_to_question(q, line_text), "parse_question")
    ELSE IF is_blockcode(line_text)
    THEN Goto(append_to_question(q, line_text), "parse_question_codeblock")
    ELSE IF is_answer(line_text) THEN Goto(q, "parse_answer")
    ELSE IF \/ is_header(line_text) \/ is_question(line_text)
            \/ is_feedback(line_text) \/ is_eof(line_text)
    THEN Raise(q, TransitionError("Expecting text, codeblock or answer"))
    ELSE Goto(append_to_question(q, line_text), "parse_question")

\* a variant that lets a question delimiter begin the next question
_state_parse_question_takesDelimiter(q, line_text, n) ==
    IF is_blank(line_text) THEN Goto(append_to_question(q, line_text), "parse_question")
    ELSE IF is_blockcode(line_text)
    THEN Goto(append_to_question(q, line_text), "parse_question_codeblock")
    ELSE IF is_answer(line_text) THEN Goto(consume_answer(q, line_text), "parse_answer")
    ELSE IF is_question(line_text) THEN Goto(start_question(q), "parse_question")
    ELSE IF is_header(line_text) \/ is_feedback(line_text) \/ is_eof(line_text)
    THEN Raise(q, TransitionError("Expecting text, codeblock or answer"))
    ELSE Goto(append_to_question(q, line_text), "parse_question")

_state_parse_question(q, line_text, n) ==
    IF is_blank(line_text) THEN Goto(append_to_question(q, line_text), "parse_question")
    ELSE IF is_blockcode(line_text)
    THEN Goto(append_to_question(q, line_text), "parse_question_codeblock")
    ELSE IF is_answer(line_text) THEN Goto(consume_answer(q, line_text), "parse_answer")
    ELSE IF \/ is_header(line_text) \/ is_question(line_text)
            \/ is_feedback(line_text) \/ is_eof(line_text)
    THEN Raise(q, TransitionError("Expecting text, codeblock or answer"))
    ELSE Goto(append_to_question(q, line_text), "parse_question")

\* a variant without the test for the end of input
_state_parse_question_codeblock_noEof(q, line_text, n) ==
    IF is_blockcode(line_text)
    THEN Goto(append_to_question(q, line_text), "parse_question")
    ELSE Goto(append_to_question(q, line_text), "parse_question_codeblock")

_state_parse_question_codeblock(q, line_text, n) ==
    IF is_eof(line_text) THEN Raise(q, TransitionError("Expecting closing codeblock"))
    ELSE IF is_blockcode(line_text)
    THEN Goto(append_to_question(q, line_text), "parse_question")
    ELSE Goto(append_to_question(q, line_text), "parse_question_codeblock")

\* quiz.validate() followed by state = "end"
ValidateAndEnd(q) ==
    LET r == validate(q) IN
    IF r.error # NoError THEN Raise(r.quiz, r.error) ELSE Goto(r.quiz, "end")

NoCorrectAnswer ==
    TransitionError("Expecting at least one correct answer in previous question")

\* a variant that appends any other line to the text of the question
_state_parse_answer_takesText(q, line_text, n) ==
    IF is_blank(line_text) THEN Goto(q, "parse_answer")
    ELSE IF is_answer(line_text) THEN Goto(consume_answer(q, line_text), "parse_answer")
    ELSE IF is_feedback(line_text)
    THEN IF CurrentQuestion(q).answers = <<>> THEN Raise(q, IndexError)
         ELSE Goto(consume_feedback(q, line_text), "parse_feedback")
    ELSE IF is_question(line_text)
    THEN IF current_question_has_correct_answers(q)
         THEN Goto(start_question(q), "parse_question")
         ELSE Raise(q, NoCorrectAnswer)
    ELSE IF is_header(line_text)
    THEN IF current_question_has_correct_answers(q)
         THEN Goto(consume_header(q, line_text), "parse_header")
         ELSE Raise(q, NoCorrectAnswer)
    ELSE IF is_eof(line_text)
    THEN IF current_question_has_correct_answers(q)
         THEN ValidateAndEnd(q)
         ELSE Raise(q, NoCorrectAnswer)
    ELSE Goto(append_to_question(q, line_text), "parse_answer")

_state_parse_answer(q, line_text, n) ==
    IF is_blank(line_text) THEN Goto(q, "parse_answer")
    ELSE IF is_answer(line_text) THEN Goto(consume_answer(q, line_text), "parse_answer")
    ELSE IF is_feedback(line_text)
    THEN IF CurrentQuestion(q).answers = <<>> THEN Raise(q, IndexError)
         ELSE Goto(consume_feedback(q, line_text), "parse_feedback")
    ELSE IF is_question(line_text)
    THEN IF current_question_has_correct_answers(q)
         THEN Goto(start_question(q), "parse_question")
         ELSE Raise(q, NoCorrectAnswer)
    ELSE IF is_header(line_text)
    THEN IF current_question_has_correct_answers(q)
         THEN Goto(consume_header(q, line_text), "parse_header")
         ELSE Raise(q, NoCorrectAnswer)
    ELSE IF is_eof(line_text)
    THEN IF current_question_has_correct_answers(q)
         THEN ValidateAndEnd(q)
         ELSE Raise(q, NoCorrectAnswer)
    ELSE Raise(q, TransitionError("Expecting answer, feedback, question or header"))

\* a variant that takes a feedback line as _state_parse_answer does
_state_feedback_takesFeedback(q, line_text, n) ==
    IF is_blank(line_text) THEN Goto(q, "parse_feedback")
    ELSE IF is_answer(line_text) THEN Goto(consume_answer(q, line_text), "parse_answer")
    ELSE IF is_feedback(line_text) THEN Goto(consume_feedback(q, line_text), "parse_feedback")
    ELSE IF is_question(line_text)
    THEN IF current_question_has_correct_answers(q)
         THEN Goto(start_question(q), "parse_question")
         ELSE Raise(q, NoCorrectAnswer)
    ELSE IF is_header(line_text)
    THEN IF current_question_has_correct_answers(q)
         THEN Goto(consume_header(q, line_text), "parse_header")
         ELSE Raise(q, NoCorrectAnswer)
    ELSE IF is_eof(line_text)
    THEN IF current_question_has_correct_answers(q)
         THEN ValidateAndEnd(q)
         ELSE Raise(q, NoCorrectAnswer)
    ELSE Raise(q, TransitionError("Expecting answer, question or header"))

_state_feedback(q, line_text, n) ==
    IF is_blank(line_text) THEN Goto(q, "parse_feedback")
    ELSE IF is_answer(line_text) THEN Goto(consume_answer(q, line_text), "parse_answer")
    ELSE IF is_question(line_text)
    THEN IF current_question_has_correct_answers(q)
         THEN Goto(start_question(q), "parse_question")
         ELSE Raise(q, NoCorrectAnswer)
    ELSE IF is_header(line_text)
    THEN IF current_question_has_correct_answers(q)
         THEN Goto(consume_header(q, line_text), "parse_header")
         ELSE Raise(q, NoCorrectAnswer)
    ELSE IF is_eof(line_text)
    THEN IF current_question_has_correct_answers(q)
         THEN ValidateAndEnd(q)
         ELSE Raise(q, NoCorrectAnswer)
    ELSE Raise(q, TransitionError("Expecting answer, question or header"))

\* a variant that takes the line into the text of the current question
_state_end_takesText(q, line_text, n) == Goto(append_to_question(q, line_text), "end")

\* the handler has no return statement: it returns None
_state_end(q, line_text, n) == [quiz |-> q, state |-> None, error |-> NoError]

\* str.upper() on the state names of the model: those of the parser, and
\* names that differ from them by the case of a letter
upper(name) ==
    CASE name \in {"start", "Start"} -> "START"
      [] name = "parse_header" -> "PARSE_HEADER"
      [] name = "parse_question" -> "PARSE_QUESTION"
      [] name = "parse_answer" -> "PARSE_ANSWER"
      [] name = "parse_feedback" -> "PARSE_FEEDBACK"
      [] name = "parse_question_codeblock" -> "PARSE_QUESTION_CODEBLOCK"
      [] name \in {"end", "End"} -> "END"
      [] OTHER -> name

\* StateMachine.state before set_start: Python's None, which is no key of handlers
NoState == "None"

\* StateMachine.__init__
NewStateMachine == [handlers |-> [name \in {} |-> ""], state |-> NoState, endStates |-> <<>>]

\* add_state on the machine sm; a handler is named by the method it is
add_state(sm, name, handler, end_state) ==
    LET key == upper(name) IN
    [ handlers  |-> [k \in (DOMAIN sm.handlers) \cup {key} |->
                        IF k = key THEN handler ELSE sm.handlers[k]],
      state     |-> sm.state,
      endStates |-> IF end_state THEN Append(sm.endStates, key) ELSE sm.endStates ]

set_start(sm, name) == [sm EXCEPT !.state = upper(name)]

\* MarkdownParser.__init__: the seven states of the parser
NewMarkdownParser ==
    add_state(
     add_state(
      add_state(
       add_state(
        add_state(
         add_state(
          add_state(NewStateMachine, "start", "_state_start", FALSE),
          "parse_header", "_state_parse_header", FALSE),
         "parse_question", "_state_parse_question", FALSE),
        "parse_answer", "_state_parse_answer", FALSE),
       "parse_feedback", "_state_feedback", FALSE),
      "parse_question_codeblock", "_state_parse_question_codeblock", FALSE),
     "end", "_state_end", TRUE)

\* handlers of a machine that is not the parser: each begins a question in the
\* quiz it is given and returns the name of a state, written in its own case
to_start(q, line_text, n) == Goto(start_question(q), "start")

to_End(q, line_text, n) == Goto(start_question(q), "End")

\* handler(quest, line_text, line_number)
CallHandler(handler, q, line_text, n) ==
    CASE handler = "_state_start" -> _state_start(q, line_text, n)
      [] handler = "_state_parse_header" -> _state_parse_header(q, line_text, n)
      [] handler = "_state_parse_question" -> _state_parse_question(q, line_text, n)
      [] handler = "_state_parse_answer" -> _state_parse_answer(q, line_text, n)
      [] handler = "_state_feedback" -> _state_feedback(q, line_text, n)
      [] handler = "_state_parse_question_codeblock" ->
             _state_parse_question_codeblock(q, line_text, n)
      [] handler = "_state_end" -> _state_end(q, line_text, n)
      [] handler = "to_start" -> to_start(q, line_text, n)
      [] handler = "to_End" -> to_End(q, line_text, n)

\* a variant that does not look at endStates
run_noEndStates(current, q, line_text, n) ==
    IF current \notin DOMAIN handlers
    THEN [state |-> current, quiz |-> q,
          error |-> InitializationError("no start state defined.")]
    ELSE LET r == CallHandler(handlers[current], q, line_text, n) IN
         IF r.error # NoError
         THEN [state |-> current, quiz |-> r.quiz, error |-> r.error]
         ELSE IF r.state = None
         THEN [state |-> current, quiz |-> r.quiz, error |-> AttributeError]
         ELSE [state |-> upper(r.state[1]), quiz |-> r.quiz, error |-> NoError]

\* StateMachine.run: the state, the quiz and the exception it leaves
run(current, q, line_text, n) ==
    IF current \notin DOMAIN handlers
    THEN [state |-> current, quiz |-> q,
          error |-> InitializationError("no start state defined.")]
    ELSE IF endStates = <<>>
    THEN [state |-> current, quiz |-> q,
          error |-> InitializationError("no end state defined.")]
    ELSE LET r == CallHandler(handlers[current], q, line_text, n) IN
         IF r.error # NoError
         THEN [state |-> current, quiz |-> r.quiz, error |-> r.error]
         ELSE IF r.state = None
         THEN [state |-> current, quiz |-> r.quiz, error |-> AttributeError]
         ELSE [state |-> upper(r.state[1]), quiz |-> r.quiz, error |-> NoError]

\* str.rstrip(c) for a single character c
RECURSIVE rstrip(_, _)
rstrip(s, c) ==
    IF s # <<>> /\ s[Len(s)] = c THEN rstrip(SubSeq(s, 1, Len(s) - 1), c) ELSE s

-----------------------------------------------------------------------------
(* The input.  The file is read in text mode, which turns every line end  *)
(* into a newline, so md_script.split(NEW_LINE) yields one or more lines    *)
(* that hold neither a newline nor a carriage return.  The model draws each *)
(* of them from LinePool, which holds a line of every class of the grammar; *)
(* "EOF" is appended after them.                                            *)

LinePool ==
    { <<>>,                               \* blank
      <<"#", " ", "A">>,                  \* header A
      <<"#", " ", "B">>,                  \* header B
      <<"-", "-", "-">>,                  \* question delimiter
      <<"-", " ", "!", "a">>,             \* correct answer
      <<"-", " ", "b">>,                  \* wrong answer
      <<">", "f">>,                       \* feedback
      <<BACKTICK, BACKTICK, BACKTICK>>,   \* code fence
      <<"x">>,                            \* other text
      EOF }                               \* a real line that reads EOF

-----------------------------------------------------------------------------
(* MarkdownParser.parse *)

\* Quiz(config=config), MarkdownParser(quiz)
\* the main program before parser.parse() has returned
BeforeExport ==
    /\ main_pc = "parse"
    /\ exporter = None
    /\ main_error = NoError
    /\ xml_files = <<>>
    /\ line_tests = {}
    /\ answer_text = <<>>
    /\ rendered = None

Init ==
    /\ BeforeExport
    /\ quiz \in {NewQuiz(p) : p \in PenaltyValues}
    /\ state = NewMarkdownParser.state
    /\ md_lines = <<>>
    /\ md_row = <<>>
    /\ line_number = 0
    /\ at_end = FALSE
    /\ pc = "start"
    /\ error = NoError
    /\ emo_text = <<>>
    /\ emo_out = <<>>
    /\ handlers = NewMarkdownParser.handlers
    /\ endStates = NewMarkdownParser.endStates

\* parse() up to the loop: set_start("start"), line_number = 1
parse_begin ==
    /\ pc = "start"
    /\ state' = set_start([handlers |-> handlers, state |-> state, endStates |-> endStates],
                           "start").state
    /\ line_number' = 1
    /\ pc' = "loop"
    /\ UNCHANGED <<quiz, md_lines, md_row, at_end, error, emoVars, exportVars, machineVars, line_tests, renderVars>>

\* md_row.rstrip('\r') and then .rstrip('\n')
StripLineEnd(raw) == rstrip(rstrip(raw, "\r"), NEW_LINE)

\* a variant that counts the line before running it
LoopBody_countsFirst(raw, last) ==
    LET row == StripLineEnd(raw)
        r == run(state, quiz, row, line_number)
    IN  /\ md_lines' = Append(md_lines, raw)
        /\ at_end' = last
        /\ md_row' = row
        /\ quiz' = r.quiz
        /\ state' = r.state
        /\ error' = r.error
        /\ line_number' = line_number + 1
        /\ pc' = IF r.error # NoError THEN "error" ELSE IF last THEN "done" ELSE "loop"
        /\ UNCHANGED <<emoVars, exportVars, machineVars, line_tests, renderVars>>

\* one iteration of the loop of parse() on the line raw; last tells that raw
\* is the last element of md_lines.  A TransitionError is caught and logged
\* with line_number, any other exception leaves parse(); both end the loop.
LoopBody(raw, last) ==
    LET row == StripLineEnd(raw)
        r == run(state, quiz, row, line_number)
    IN  /\ md_lines' = Append(md_lines, raw)
        /\ at_end' = last
        /\ md_row' = row
        /\ quiz' = r.quiz
        /\ state' = r.state
        /\ error' = r.error
        /\ IF r.error = NoError
           THEN /\ line_number' = line_number + 1
                /\ pc' = IF last THEN "done" ELSE "loop"
           ELSE /\ line_number' = line_number
                /\ pc' = "error"
        /\ UNCHANGED <<emoVars, exportVars, machineVars, line_tests, renderVars>>

\* the loop takes a line of the file
parse_line ==
    /\ pc = "loop"
    /\ Len(md_lines) < MaxLines
    /\ \E raw \in LinePool : LoopBody(raw, FALSE)

\* the loop takes the "EOF" that parse() appended after the lines of the file
parse_eof ==
    /\ pc = "loop"
    /\ Len(md_lines) >= 1
    /\ LoopBody(EOF, TRUE)

-----------------------------------------------------------------------------
(* XMLExporter: the order of serialisation.  The XML text is modelled as   *)
(* the sequence of its elements; an element holds the raw text its         *)
(* content is rendered from, not the rendered text.                        *)

\* <answer fraction=weight><text>..</text>[<feedback>..</feedback>]</answer>
_answer_to_xml(answer) ==
    [kind |-> "answer", fraction |-> answer.weight, text |-> answer.text,
     feedback |-> answer.feedback]

\* <question type="multichoice"> with its name (index_part is str(index + 1)),
\* its text, and then "for answer in question['answers']"
_question_to_xml(question, index) ==
    << [kind |-> "question", index_part |-> index + 1, text |-> question.text,
        single |-> question.single] >>
    \o [k \in 1..Len(question.answers) |-> _answer_to_xml(question.answers[k])]

\* "for index, question in enumerate(section)" from the 0-based index on
RECURSIVE QuestionsToXml(_, _)
QuestionsToXml(section, index) ==
    IF index >= Len(section) THEN <<>>
    ELSE _question_to_xml(section[index + 1], index) \o QuestionsToXml(section, index + 1)

\* the category element named by the caption, then the questions
_section_to_xml(section_caption, section) ==
    << [kind |-> "category", text |-> section_caption] >> \o QuestionsToXml(section, 0)

\* "for section_caption in self.quiz" from item i on: one output per section
RECURSIVE SectionsToXml(_, _)
SectionsToXml(q, i) ==
    IF i > Len(q.items) THEN <<>>
    ELSE << _section_to_xml(q.items[i].key, q.heap[q.items[i].value]) >>
             \o SectionsToXml(q, i + 1)

\* the outputs in the order they are written, none for a quiz that is not valid
_export_xml_to_file(q) == IF q.is_valid THEN SectionsToXml(q, 1) ELSE <<>>

\* main: exporter.export("./xml/")
export ==
    /\ main_pc = "export"
    /\ xml_files' = _export_xml_to_file(exporter[1].quiz)
    /\ main_pc' = "end"
    /\ UNCHANGED <<parseVars, emoVars, machineVars, exporter, main_error, line_tests, renderVars>>

\* parse() has returned: the loop is over, or it caught a TransitionError
\* (an exception of another class leaves parse() and the try block of main)
ParseReturned == pc = "done" \/ (pc = "error" /\ error.kind = "TransitionError")

\* a variant that constructs the exporter of a quiz that is not valid
QuizExporter__init__anyQuiz(q) ==
    IF q.items = <<>>
    THEN [exporter |-> None, error |-> ValueError("Quiz cannot be None.")]
    ELSE [exporter |-> Some([quiz |-> q, config |-> q.config]), error |-> NoError]

\* QuizExporter.__init__: "not quiz" is true of None and of a dict without keys
QuizExporter__init__(q) ==
    IF q.items = <<>>
    THEN [exporter |-> None, error |-> ValueError("Quiz cannot be None.")]
    ELSE IF ~q.is_valid
    THEN [exporter |-> None, error |-> ValueError("Quiz is not valid. Cannot be exported.")]
    ELSE [exporter |-> Some([quiz |-> q, config |-> q.config]), error |-> NoError]

\* main: exporter = XMLExporter(quiz)
new_exporter ==
    /\ main_pc = "parse"
    /\ ParseReturned
    /\ LET r == QuizExporter__init__(quiz) IN
           /\ exporter' = r.exporter
           /\ main_error' = r.error
           /\ main_pc' = IF r.error = NoError THEN "export" ELSE "except"
    /\ UNCHANGED <<parseVars, emoVars, machineVars, xml_files, line_tests, renderVars>>

Next == parse_begin \/ parse_line \/ parse_eof \/ new_exporter \/ export

Spec == Init /\ [][Next]_vars

-----------------------------------------------------------------------------
(* XMLExporter._sanitize_moodle_emoticons *)

\* MOODLE_EMOTICONS, in the order of the alternatives of EMOTICON_PATTERN
MOODLE_EMOTICONS ==
    << <<"(", "n", ")">>, <<"(", "y", ")">>,
       <<":", "-", ")">>, <<":", ")">>,
       <<":", "-", "(">>, <<":", "(">>,
       <<";", "-", ")">>, <<";", ")">> >>

\* the zero-width space entity '&#8203;'
ZeroWidthSpace == <<"&", "#", "8", "2", "0", "3", ";">>

\* text[start:end], with Python's 0-based start and exclusive end
Slice(text, start, end) == SubSeq(text, start + 1, end)

\* EMOTICON_PATTERN at the 0-based position i: the length of the first
\* alternative that matches there, or 0
MatchLenAt(text, i) ==
    LET fits(k) == /\ i + Len(MOODLE_EMOTICONS[k]) <= Len(text)
                   /\ Slice(text, i, i + Len(MOODLE_EMOTICONS[k])) = MOODLE_EMOTICONS[k]
    IN  IF \E k \in 1..Len(MOODLE_EMOTICONS) : fits(k)
        THEN Len(MOODLE_EMOTICONS[
                 CHOOSE k \in 1..Len(MOODLE_EMOTICONS) :
                     fits(k) /\ \A j \in 1..(k - 1) : ~fits(j)])
        ELSE 0

\* list(EMOTICON_PATTERN.finditer(text)) from position i on: the matches as
\* <<start, end>>, leftmost first and not overlapping
RECURSIVE FindIter(_, _)
FindIter(text, i) ==
    IF i >= Len(text) THEN <<>>
    ELSE LET n == MatchLenAt(text, i) IN
         IF n > 0 THEN <<(<<i, i + n>>)>> \o FindIter(text, i + n)
         ELSE FindIter(text, i + 1)

\* sub in s
Contains(s, sub) ==
    \E i \in 0..(Len(s) - Len(sub)) : Slice(s, i, i + Len(sub)) = sub

\* the loop "for m in matches" from match k on
RECURSIVE SanitizeLoop(_, _, _, _)
SanitizeLoop(matches, k, result, offset) ==
    IF k > Len(matches) THEN result
    ELSE LET start == matches[k][1] + offset
             end == matches[k][2] + offset
             original == Slice(result, start, end)
             sanitized == Slice(original, 0, Len(original) - 1) \o ZeroWidthSpace
                              \o <<original[Len(original)]>>
         IN  IF Contains(original, ZeroWidthSpace)
             THEN SanitizeLoop(matches, k + 1, result, offset)
             ELSE SanitizeLoop(matches, k + 1,
                      Slice(result, 0, start) \o sanitized \o Slice(result, end, Len(result)),
                      offset + Len(sanitized) - Len(original))

_sanitize_moodle_emoticons(text) ==
    IF text = <<>> THEN text
    ELSE LET matches == FindIter(text, 0) IN
         IF matches = <<>> THEN text
         ELSE SanitizeLoop(matches, 1, text, 0)

\* the characters of the emoticons, and an ordinary one
EmoticonAlphabet == {"(", ")", ":", ";", "-", "n", "y", "a"}

EmoticonTexts == UNION {[1..n -> EmoticonAlphabet] : n \in 0..MaxTextLen}

InitEmoticons ==
    /\ BeforeExport
    /\ emo_text \in EmoticonTexts
    /\ emo_out = <<>>
    /\ quiz = NewQuiz(0)
    /\ state = NoState
    /\ md_lines = <<>>
    /\ md_row = <<>>
    /\ line_number = 0
    /\ at_end = FALSE
    /\ pc = "start"
    /\ error = NoError
    /\ handlers = NewStateMachine.handlers
    /\ endStates = NewStateMachine.endStates

\* _sanitize_moodle_emoticons applied to the text, then to its own result
sanitize ==
    /\ Len(emo_out) < MaxApplications
    /\ emo_out' = Append(emo_out,
           _sanitize_moodle_emoticons(IF emo_out = <<>> THEN emo_text
                                      ELSE emo_out[Len(emo_out)]))
    /\ UNCHANGED <<emo_text, parseVars, exportVars, machineVars, line_tests, renderVars>>

NextEmoticons == sanitize

SpecEmoticons == InitEmoticons /\ [][NextEmoticons]_vars

-----------------------------------------------------------------------------
(* XMLExporter._render_answer: the passes over the text of an answer.  The *)
(* library function markdown() and _wrap_cdata are kept as the record of   *)
(* their argument.                                                         *)

\* str.replace(old, new) for a single character old
RECURSIVE replace(_, _, _)
replace(text, old, new) ==
    IF text = <<>> THEN <<>>
    ELSE (IF Head(text) = old THEN new ELSE <<Head(text)>>) \o replace(Tail(text), old, new)

\* '#' to '\#', then '&', '>', '<', '*' to their entities, in this order
_sanitize_entities(text) ==
    LET t1 == replace(text, "#", <<"\\", "#">>)
        t2 == replace(t1, "&", <<"&", "a", "m", "p", ";">>)
        t3 == replace(t2, ">", <<"&", "g", "t", ";">>)
        t4 == replace(t3, "<", <<"&", "l", "t", ";">>)
    IN  replace(t4, "*", <<"&", "a", "s", "t", ";">>)

\* '<code>' + _sanitize_entities(match.group(1)) + '</code>'
_replace_single_line_code(code) ==
    <<"<", "c", "o", "d", "e", ">">> \o _sanitize_entities(code)
        \o <<"<", "/", "c", "o", "d", "e", ">">>

\* the 0-based position of the first c in text at or after i, or Len(text)
RECURSIVE IndexFrom(_, _, _)
IndexFrom(text, c, i) ==
    IF i >= Len(text) THEN Len(text)
    ELSE IF text[i + 1] = c THEN i
    ELSE IndexFrom(text, c, i + 1)

\* SINGLE_LINE_CODE_PATTERN = `([^`]+)` : the matches from position i on as
\* <<start, end>>, leftmost first and not overlapping
RECURSIVE CodeMatches(_, _)
CodeMatches(text, i) ==
    IF i >= Len(text) THEN <<>>
    ELSE IF text[i + 1] # BACKTICK THEN CodeMatches(text, i + 1)
    ELSE LET j == IndexFrom(text, BACKTICK, i + 1) IN
         IF j < Len(text) /\ j > i + 1
         THEN <<(<<i, j + 1>>)>> \o CodeMatches(text, j + 1)
         ELSE CodeMatches(text, i + 1)

\* the end of the shortest match of \$(.+?)\$ that starts at the '$' at i:
\* the next '$' after at least one character, no newline in between; or 0
RECURSIVE LatexEnd(_, _, _)
LatexEnd(text, i, j) ==
    IF j >= Len(text) THEN 0
    ELSE IF j >= i + 2 /\ text[j + 1] = "$" THEN j + 1
    ELSE IF text[j + 1] = NEW_LINE THEN 0
    ELSE LatexEnd(text, i, j + 1)

\* SINGLE_DOLLAR_LATEX_PATTERN = \$(.+?)\$ : the matches from position i on
RECURSIVE LatexMatches(_, _)
LatexMatches(text, i) ==
    IF i >= Len(text) THEN <<>>
    ELSE IF text[i + 1] # "$" THEN LatexMatches(text, i + 1)
    ELSE LET e == LatexEnd(text, i, i + 1) IN
         IF e > 0 THEN <<(<<i, e>>)>> \o LatexMatches(text, e)
         ELSE LatexMatches(text, i + 1)

\* '\\(' + code with '(' as '\left(' and ')' as '\right)' + '\\)', where
\* the raw string '\\(' is two backslashes and a parenthesis
_replace_latex(code) ==
    LET c1 == replace(code, "(", <<"\\", "l", "e", "f", "t", "(">>)
        c2 == replace(c1, ")", <<"\\", "r", "i", "g", "h", "t", ")">>)
    IN  <<"\\", "\\", "(">> \o c2 \o <<"\\", "\\", ")">>

\* re.sub(SINGLE_LINE_CODE_PATTERN, self._replace_single_line_code, text):
\* the text from position i on with match k and the later ones replaced
RECURSIVE SubCode(_, _, _, _)
SubCode(text, matches, k, i) ==
    IF k > Len(matches) THEN Slice(text, i, Len(text))
    ELSE Slice(text, i, matches[k][1])
         \o _replace_single_line_code(Slice(text, matches[k][1] + 1, matches[k][2] - 1))
         \o SubCode(text, matches, k + 1, matches[k][2])

\* re.sub(SINGLE_DOLLAR_LATEX_PATTERN, self._replace_latex, text)
RECURSIVE SubLatex(_, _, _, _)
SubLatex(text, matches, k, i) ==
    IF k > Len(matches) THEN Slice(text, i, Len(text))
    ELSE Slice(text, i, matches[k][1])
         \o _replace_latex(Slice(text, matches[k][1] + 1, matches[k][2] - 1))
         \o SubLatex(text, matches, k + 1, matches[k][2])

\* the library function markdown(), kept as the record of its argument
markdown(text) == [markdown |-> text]

_wrap_cdata(content) == [cdata |-> content]

_render_answer(text) ==
    LET t1 == SubCode(text, CodeMatches(text, 0), 1, 0)
        t2 == SubLatex(t1, LatexMatches(t1, 0), 1, 0)
        t3 == _sanitize_moodle_emoticons(t2)
    IN  _wrap_cdata(markdown(t3))

\* the characters the three passes look for, one that _sanitize_entities
\* rewrites, and an ordinary one
AnswerAlphabet == {BACKTICK, "$", ":", "(", ")", ">", "a"}

AnswerTexts == UNION {[1..n -> AnswerAlphabet] : n \in 0..MaxAnswerLen}

InitRender ==
    /\ main_pc = "parse"
    /\ exporter = None
    /\ main_error = NoError
    /\ xml_files = <<>>
    /\ line_tests = {}
    /\ answer_text \in AnswerTexts
    /\ rendered = None
    /\ quiz = NewQuiz(0)
    /\ state = NoState
    /\ md_lines = <<>>
    /\ md_row = <<>>
    /\ line_number = 0
    /\ at_end = FALSE
    /\ pc = "start"
    /\ error = NoError
    /\ emo_text = <<>>
    /\ emo_out = <<>>
    /\ handlers = NewStateMachine.handlers
    /\ endStates = NewStateMachine.endStates

\* self._render_answer(answer['text'])
call_render_answer ==
    /\ rendered = None
    /\ rendered' = Some(_render_answer(answer_text))
    /\ UNCHANGED <<parseVars, emoVars, machineVars, exportVars, line_tests, answer_text>>

NextRender == call_render_answer

SpecRender == InitRender /\ [][NextRender]_vars

-----------------------------------------------------------------------------
(* The Quiz class used on its own: a caller builds a document with the     *)
(* methods of Quiz, in any order the methods allow, and then calls         *)
(* validate().  pc is "build" until validate() has returned or raised.     *)

\* the header lines and the answer lines the caller hands to the methods
HeaderLines == { <<"#", " ", "A">>, <<"#", " ", "B">> }

AnswerLines == { <<"-", " ", "!", "a">>, <<"-", " ", "b">> }

\* the number of questions of all the section lists
RECURSIVE QuestionCount(_, _)
QuestionCount(heap, l) ==
    IF l > Len(heap) THEN 0 ELSE Len(heap[l]) + QuestionCount(heap, l + 1)

InitQuiz ==
    /\ BeforeExport
    /\ quiz \in {NewQuiz(p) : p \in PenaltyValues}
    /\ pc = "build"
    /\ error = NoError
    /\ state = NoState
    /\ md_lines = <<>>
    /\ md_row = <<>>
    /\ line_number = 0
    /\ at_end = FALSE
    /\ emo_text = <<>>
    /\ emo_out = <<>>
    /\ handlers = NewStateMachine.handlers
    /\ endStates = NewStateMachine.endStates

call_consume_header ==
    /\ pc = "build"
    /\ Len(quiz.heap) <= MaxSections
    /\ \E line \in HeaderLines : quiz' = consume_header(quiz, line)
    /\ UNCHANGED <<state, md_lines, md_row, line_number, at_end, pc, error, emoVars, exportVars, machineVars, line_tests, renderVars>>

call_start_question ==
    /\ pc = "build"
    /\ QuestionCount(quiz.heap, 1) < MaxQuestions
    /\ quiz' = start_question(quiz)
    /\ UNCHANGED <<state, md_lines, md_row, line_number, at_end, pc, error, emoVars, exportVars, machineVars, line_tests, renderVars>>

\* consume_answer needs a current question: on the initial {} it raises KeyError
call_consume_answer ==
    /\ pc = "build"
    /\ quiz.current_question # None
    /\ Len(CurrentQuestion(quiz).answers) < MaxAnswers
    /\ \E line \in AnswerLines : quiz' = consume_answer(quiz, line)
    /\ UNCHANGED <<state, md_lines, md_row, line_number, at_end, pc, error, emoVars, exportVars, machineVars, line_tests, renderVars>>

call_validate ==
    /\ pc = "build"
    /\ LET r == validate(quiz) IN
           /\ quiz' = r.quiz
           /\ error' = r.error
    /\ pc' = "validated"
    /\ UNCHANGED <<state, md_lines, md_row, line_number, at_end, emoVars, exportVars, machineVars, line_tests, renderVars>>

NextQuiz ==
    call_consume_header \/ call_start_question \/ call_consume_answer \/ call_validate

SpecQuiz == InitQuiz /\ [][NextQuiz]_vars

-----------------------------------------------------------------------------
(* The StateMachine class used on its own: a caller registers states, sets  *)
(* the start state and calls run, in any order.  pc is "machine";           *)
(* line_number counts the calls of run.                                     *)

\* the names the caller writes, and the handlers it registers
StateNames == {"start", "Start", "End"}

TestHandlers == {"to_start", "to_End"}

\* the StateMachine object
Machine == [handlers |-> handlers, state |-> state, endStates |-> endStates]

InitMachine ==
    /\ BeforeExport
    /\ handlers = NewStateMachine.handlers
    /\ state = NewStateMachine.state
    /\ endStates = NewStateMachine.endStates
    /\ quiz = NewQuiz(0)
    /\ pc = "machine"
    /\ error = NoError
    /\ line_number = 0
    /\ md_lines = <<>>
    /\ md_row = <<>>
    /\ at_end = FALSE
    /\ emo_text = <<>>
    /\ emo_out = <<>>

call_add_state ==
    /\ pc = "machine"
    /\ \E name \in StateNames, handler \in TestHandlers, end_state \in BOOLEAN :
           /\ end_state => Len(endStates) < MaxEndStates
           /\ handlers' = add_state(Machine, name, handler, end_state).handlers
           /\ endStates' = add_state(Machine, name, handler, end_state).endStates
           /\ state' = add_state(Machine, name, handler, end_state).state
    /\ UNCHANGED <<quiz, md_lines, md_row, line_number, at_end, pc, error, emoVars, exportVars, line_tests, renderVars>>

call_set_start ==
    /\ pc = "machine"
    /\ \E name \in StateNames : state' = set_start(Machine, name).state
    /\ UNCHANGED <<quiz, md_lines, md_row, line_number, at_end, pc, error, emoVars, exportVars, machineVars, line_tests, renderVars>>

\* run(quiz, "", line_number); the caller catches what it raises
call_run ==
    /\ pc = "machine"
    /\ line_number < MaxRuns
    /\ LET r == run(state, quiz, <<>>, line_number) IN
           /\ state' = r.state
           /\ quiz' = r.quiz
           /\ error' = r.error
    /\ line_number' = line_number + 1
    /\ UNCHANGED <<md_lines, md_row, at_end, pc, emoVars, exportVars, machineVars, line_tests, renderVars>>

NextMachine == call_add_state \/ call_set_start \/ call_run

SpecMachine == InitMachine /\ [][NextMachine]_vars

-----------------------------------------------------------------------------
(* Properties of the state machine *)

\* the name a handler of TestHandlers returns, as the handler writes it
ReturnedName(handler) == IF handler = "to_start" THEN "start" ELSE "End"

\* two names that differ at most by the case of their letters
SameIgnoringCase(a, b) ==
    \E names \in { {"start", "Start", "START"}, {"end", "End", "END"} } :
        a \in names /\ b \in names

\* C14: run raises InitializationError, calls no handler and leaves the state
\* as it was when set_start was never called or no terminal state was ever
\* registered; when the state is a registered one and a terminal state was
\* registered, run calls the handler of the state and sets the state to the
\* name the handler returns, whatever the case of its letters.
C14_RunNeedsStartAndEnd ==
    [][ (pc = "machine" /\ line_number' = line_number + 1) =>
            /\ (state = NoState \/ endStates = <<>>) =>
                   /\ error'.kind = "InitializationError"
                   /\ state' = state
                   /\ quiz' = quiz
            /\ (state \in DOMAIN handlers /\ endStates # <<>>) =>
                   /\ error' = NoError
                   /\ quiz' = start_question(quiz)
                   /\ SameIgnoringCase(state', ReturnedName(handlers[state]))
                   /\ state' \in {"START", "END"} ]_vars

C14_Witness ==
    /\ pc = "machine"
    /\ line_number = 2
    /\ error = NoError
    /\ state = "END"
    /\ Len(quiz.heap[1]) = 2

-----------------------------------------------------------------------------
(* The helpers of the regular expressions used on their own: every helper  *)
(* is applied to one line, and consume_answer takes the line for a         *)
(* question that has just begun.                                           *)

\* the characters the patterns look for, two kinds of white space, and the
\* letters of "EOF" as ordinary characters
LineAlphabet == {" ", "\t", "#", "-", "!", ">", BACKTICK, "E", "O", "F"}

Lines == UNION {[1..n -> LineAlphabet] : n \in 0..MaxLineLen}

\* the names of the helpers that are true of the line
LineTests(line) ==
    (IF is_blank(line) THEN {"is_blank"} ELSE {})
    \cup (IF is_header(line) THEN {"is_header"} ELSE {})
    \cup (IF is_question(line) THEN {"is_question"} ELSE {})
    \cup (IF is_correct_answer(line) THEN {"is_correct_answer"} ELSE {})
    \cup (IF is_wrong_answer(line) THEN {"is_wrong_answer"} ELSE {})
    \cup (IF is_answer(line) THEN {"is_answer"} ELSE {})
    \cup (IF is_feedback(line) THEN {"is_feedback"} ELSE {})
    \cup (IF is_blockcode(line) THEN {"is_blockcode"} ELSE {})
    \cup (IF is_eof(line) THEN {"is_eof"} ELSE {})

InitLines ==
    /\ BeforeExport
    /\ md_row \in Lines
    /\ quiz = start_question(NewQuiz(0))
    /\ pc = "line"
    /\ error = NoError
    /\ state = NoState
    /\ md_lines = <<>>
    /\ line_number = 0
    /\ at_end = FALSE
    /\ emo_text = <<>>
    /\ emo_out = <<>>
    /\ handlers = NewStateMachine.handlers
    /\ endStates = NewStateMachine.endStates

\* the helpers applied to the line
call_is_helpers ==
    /\ pc = "line"
    /\ line_tests' = LineTests(md_row)
    /\ pc' = "tested"
    /\ UNCHANGED <<quiz, state, md_lines, md_row, line_number, at_end, error, emoVars,
                   machineVars, exportVars, renderVars>>

\* quiz.consume_answer(line)
call_consume_answer_line ==
    /\ pc = "tested"
    /\ quiz' = consume_answer(quiz, md_row)
    /\ pc' = "consumed"
    /\ UNCHANGED <<state, md_lines, md_row, line_number, at_end, error, emoVars,
                   machineVars, exportVars, line_tests, renderVars>>

NextLines == call_is_helpers \/ call_consume_answer_line

SpecLines == InitLines /\ [][NextLines]_vars

-----------------------------------------------------------------------------
(* Properties of the parser *)

\* the loop of parse() takes a line in this step
TakesLine == pc = "loop" /\ md_lines' # md_lines

HasCurrentQuestion(q) == q.current_question # None

\* some answer of the current question is marked correct
CurrentHasCorrect(q) ==
    /\ HasCurrentQuestion(q)
    /\ \E i \in 1..Len(CurrentQuestion(q).answers) : CurrentQuestion(q).answers[i].correct

\* the places <<list, index>> of the questions the mapping of the quiz reaches
MappedQuestions(q) ==
    UNION { {<<q.items[i].value, j>> : j \in 1..Len(q.heap[q.items[i].value])} :
                i \in 1..Len(q.items) }

\* the places of all the questions of the heap, mapped or not
AllQuestions(q) ==
    UNION { {<<l, j>> : j \in 1..Len(q.heap[l])} : l \in 1..Len(q.heap) }

QuestionAt(q, place) == q.heap[place[1]][place[2]]

\* a header line, a question delimiter or a line that reads EOF
GuardedLine(row) == is_header(row) \/ is_question(row) \/ is_eof(row)

\* C1: in the states of parse_answer and parse_feedback, a header line, a
\* question delimiter or the end of input is accepted only when the current
\* question has a correct answer; otherwise the step ends the parse with the
\* TransitionError "Expecting at least one correct answer in previous
\* question", and leaves the quiz and the state as they were (no section
\* begun, no question begun, no validation).
C1_GuardedTransitions ==
    [][ ( /\ TakesLine
          /\ state \in {"PARSE_ANSWER", "PARSE_FEEDBACK"}
          /\ GuardedLine(md_row')
          /\ ~CurrentHasCorrect(quiz) )
        => ( /\ pc' = "error"
             /\ error' = TransitionError("Expecting at least one correct answer in previous question")
             /\ quiz' = quiz
             /\ state' = state ) ]_vars

C1_Witness ==
    /\ pc = "error"
    /\ error.kind = "TransitionError"
    /\ state = "PARSE_FEEDBACK"
    /\ is_header(md_row)
    /\ ~CurrentHasCorrect(quiz)

\* C2: when the parse has succeeded (the state is END and is_valid is true),
\* every question of every section of the mapping has a correct_count of at
\* least 1 and an answer marked correct.
C2_ValidHasCorrect ==
    (state = "END" /\ quiz.is_valid) =>
        \A place \in MappedQuestions(quiz) :
            LET question == QuestionAt(quiz, place) IN
            /\ question.correct_count # None
            /\ question.correct_count[1] >= 1
            /\ \E a \in 1..Len(question.answers) : question.answers[a].correct

C2_Witness ==
    /\ pc = "done"
    /\ state = "END"
    /\ quiz.is_valid
    /\ \E place \in MappedQuestions(quiz) : place[2] = 2

\* C3: when the parse has failed with any error, is_valid is false.
C3_FailedParseNotValid == pc = "error" => ~quiz.is_valid

\* C13: parse() runs one step for each line, in the order of the input, with
\* a line counter that starts at 1; when the handler raises a TransitionError
\* on line k (the "EOF" appended after the lines of the file being the line
\* after the last of them), the line number reported is k, no line after k is
\* taken, and is_valid is false.
C13_ErrorLine ==
    [][ /\ pc = "error" => UNCHANGED parseVars
        /\ TakesLine =>
               /\ line_number = Len(md_lines) + 1
               /\ Len(md_lines') = line_number
               /\ md_row' = StripLineEnd(md_lines'[line_number])
               /\ (at_end' => md_lines'[line_number] = EOF)
               /\ error'.kind = "TransitionError" =>
                      /\ pc' = "error"
                      /\ line_number' = line_number
                      /\ state' = state
                      /\ ~quiz'.is_valid ]_vars

C13_Witness ==
    /\ pc = "error"
    /\ error.kind = "TransitionError"
    /\ ~at_end
    /\ line_number = 3
    /\ Len(md_lines) = 3

-----------------------------------------------------------------------------
(* Properties of a well-formed document *)

\* a line of none of the other classes of the grammar: plain text
IsOther(row) ==
    /\ ~is_blank(row) /\ ~is_header(row) /\ ~is_question(row) /\ ~is_answer(row)
    /\ ~is_feedback(row) /\ ~is_blockcode(row) /\ ~is_eof(row)

\* line i of the input, as the loop hands it to run
Line(i) == StripLineEnd(md_lines[i])

\* the lines taken are a header, a question delimiter, b lines of text, a
\* answer lines of which exactly one is correct, blank lines if any (the one
\* after a final newline), and the "EOF" appended after them
WellFormed(b, a) ==
    LET n == Len(md_lines) - 1 IN
    /\ at_end
    /\ b >= 1 /\ a >= 1 /\ 2 + b + a <= n
    /\ is_header(Line(1))
    /\ is_question(Line(2))
    /\ \A i \in 3..(2 + b) : IsOther(Line(i))
    /\ \A i \in (3 + b)..(2 + b + a) : is_answer(Line(i))
    /\ Cardinality({i \in (3 + b)..(2 + b + a) : is_correct_answer(Line(i))}) = 1
    /\ \A i \in (3 + b + a)..n : is_blank(Line(i))

RECURSIVE JoinLines(_, _)
JoinLines(from, to) ==
    IF from > to THEN <<>> ELSE Line(from) \o <<NEW_LINE>> \o JoinLines(from + 1, to)

-----------------------------------------------------------------------------
(* Properties of the transitions of the parser, state by state *)

\* the step leaves the parse with a TransitionError, the quiz and the state
\* as they were
Rejects ==
    /\ pc' = "error"
    /\ error'.kind = "TransitionError"
    /\ quiz' = quiz
    /\ state' = state

\* the step succeeds and leaves the machine in the state next
Accepts(next) == error' = NoError /\ pc' # "error" /\ state' = next

\* q2 is q with a new question of the given text at the end of the current
\* section, which is the current question of q2
BeginsQuestion(q, q2, text) ==
    q2 = [q EXCEPT !.heap[q.section] = Append(@, NewQuestion(text)),
                   !.current_question = Some(<<q.section, Len(q.heap[q.section]) + 1>>)]

\* q2 is q with a new, empty section under the caption of row, which is the
\* current section of q2
BeginsSection(q, q2, row) ==
    /\ q2.heap = Append(q.heap, <<>>)
    /\ q2.section = Len(q.heap) + 1
    /\ \E i \in 1..Len(q2.items) :
           q2.items[i] = [key |-> Rest(row, LeadingSpaces(row) + 3), value |-> q2.section]
    /\ [q2 EXCEPT !.heap = q.heap, !.section = q.section, !.items = q.items] = q

\* q2 is q with row and a newline at the end of the text of the current question
AppendsText(q, q2, row) ==
    q2 = SetCurrentQuestion(q, [CurrentQuestion(q) EXCEPT !.text = @ \o row \o <<NEW_LINE>>])

\* q2 is q with the answer of row at the end of the answers of the current
\* question: correct when '!' follows the dash, with the text after the mark
AppendsAnswer(q, q2, row) ==
    LET correct == is_correct_answer(row)
        text == Rest(row, LeadingSpaces(row) + (IF correct THEN 4 ELSE 3))
    IN  q2 = SetCurrentQuestion(q, [CurrentQuestion(q) EXCEPT !.answers =
                 Append(@, [text |-> text, correct |-> correct,
                            feedback |-> None, weight |-> None])])

\* q2 is q with the text after '>' as the feedback of the last answer of the
\* current question
AttachesFeedback(q, q2, row) ==
    LET n == Len(CurrentQuestion(q).answers) IN
    /\ n >= 1
    /\ q2 = SetCurrentQuestion(q, [CurrentQuestion(q) EXCEPT
                 !.answers[n].feedback = Some(Rest(row, LeadingSpaces(row) + 2))])

\* C16: in the state of parse_header a blank line keeps the state and the
\* quiz; a question delimiter begins a question with no text and moves to
\* parse_question; a line of plain text begins a question, appends the line
\* to its text and moves to parse_question; a header line, an answer line, a
\* feedback line, a code fence and the end of input raise a TransitionError.
C16_InHeader ==
    [][ (TakesLine /\ state = "PARSE_HEADER") =>
            LET row == md_row' IN
            /\ is_blank(row) => (Accepts("PARSE_HEADER") /\ quiz' = quiz)
            /\ is_question(row) =>
                   (Accepts("PARSE_QUESTION") /\ BeginsQuestion(quiz, quiz', <<>>))
            /\ IsOther(row) =>
                   /\ Accepts("PARSE_QUESTION")
                   /\ BeginsQuestion(quiz, quiz', row \o <<NEW_LINE>>)
            /\ ( \/ is_header(row) \/ is_answer(row) \/ is_feedback(row)
                 \/ is_blockcode(row) \/ is_eof(row) ) => Rejects ]_vars

\* none of the lines is a header line or a question delimiter
NoHeaderNoQuestion(lines) ==
    \A i \in 1..Len(lines) :
        ~is_header(StripLineEnd(lines[i])) /\ ~is_question(StripLineEnd(lines[i]))

\* C17: in the state of start a blank line keeps the state; a header line
\* begins a section and moves to parse_header; a question delimiter begins a
\* question with no text and moves to parse_question; an answer line, a
\* feedback line, a code fence, the end of input and a line of plain text
\* raise a TransitionError.  So the parse of an input with no header line and
\* no question delimiter, the empty input among them, fails.
C17_InStart ==
    [][ /\ (TakesLine /\ state = "START") =>
               LET row == md_row' IN
               /\ is_blank(row) => (Accepts("START") /\ quiz' = quiz)
               /\ is_header(row) =>
                      (Accepts("PARSE_HEADER") /\ BeginsSection(quiz, quiz', row))
               /\ is_question(row) =>
                      (Accepts("PARSE_QUESTION") /\ BeginsQuestion(quiz, quiz', <<>>))
               /\ ( \/ is_answer(row) \/ is_feedback(row) \/ is_blockcode(row)
                    \/ is_eof(row) \/ IsOther(row) ) => Rejects
        /\ (TakesLine /\ pc' # "loop" /\ NoHeaderNoQuestion(md_lines')) =>
               /\ pc' = "error"
               /\ error' = TransitionError("Expecting a header or a question")
               /\ ~quiz'.is_valid ]_vars

\* the empty input: split gives one empty line, and "EOF" follows it
C17_Witness ==
    /\ md_lines = << <<>>, EOF >>
    /\ at_end
    /\ state = "START"
    /\ pc = "error"

\* every question but the current one has an answer
OnlyCurrentWithoutAnswer(q) ==
    \A place \in AllQuestions(q) :
        Some(place) # q.current_question => QuestionAt(q, place).answers # <<>>

\* C18: in the state of parse_question a blank line and a line of plain text
\* are appended to the text of the question and keep the state; a code fence
\* is appended and moves to parse_question_codeblock; an answer line appends
\* an answer and moves to parse_answer; a header line, a question delimiter,
\* a feedback line and the end of input raise a TransitionError.  So no
\* question is left behind without an answer.
C18_InQuestion ==
    [][ /\ (TakesLine /\ state = "PARSE_QUESTION") =>
               LET row == md_row' IN
               /\ (is_blank(row) \/ IsOther(row)) =>
                      (Accepts("PARSE_QUESTION") /\ AppendsText(quiz, quiz', row))
               /\ is_blockcode(row) =>
                      (Accepts("PARSE_QUESTION_CODEBLOCK") /\ AppendsText(quiz, quiz', row))
               /\ is_answer(row) =>
                      (Accepts("PARSE_ANSWER") /\ AppendsAnswer(quiz, quiz', row))
               /\ ( \/ is_header(row) \/ is_question(row) \/ is_feedback(row)
                    \/ is_eof(row) ) => Rejects
        /\ OnlyCurrentWithoutAnswer(quiz') ]_vars

C18_Witness ==
    /\ state = "PARSE_ANSWER"
    /\ HasCurrentQuestion(quiz)
    /\ CurrentQuestion(quiz).text = <<"x", NEW_LINE, NEW_LINE>>
    /\ Len(CurrentQuestion(quiz).answers) = 1
    /\ quiz.items # <<>>

\* C19: in the state of parse_answer a blank line keeps the state and the
\* quiz; an answer line appends an answer to the current question and keeps
\* the state; a feedback line sets the feedback of the last answer and moves
\* to parse_feedback; a code fence and a line of plain text raise a
\* TransitionError and leave the quiz as it was.
C19_InAnswer ==
    [][ (TakesLine /\ state = "PARSE_ANSWER") =>
            LET row == md_row' IN
            /\ is_blank(row) => (Accepts("PARSE_ANSWER") /\ quiz' = quiz)
            /\ is_answer(row) => (Accepts("PARSE_ANSWER") /\ AppendsAnswer(quiz, quiz', row))
            /\ is_feedback(row) =>
                   (Accepts("PARSE_FEEDBACK") /\ AttachesFeedback(quiz, quiz', row))
            /\ (is_blockcode(row) \/ IsOther(row)) => Rejects ]_vars

C19_Witness ==
    /\ pc = "error"
    /\ state = "PARSE_ANSWER"
    /\ is_blockcode(md_row)
    /\ Len(CurrentQuestion(quiz).answers) = 2

\* an answer that has a feedback in q has the same feedback in q2
KeepsFeedback(q, q2) ==
    \A place \in AllQuestions(q) :
        \A k \in 1..Len(QuestionAt(q, place).answers) :
            QuestionAt(q, place).answers[k].feedback # None =>
                /\ place \in AllQuestions(q2)
                /\ k <= Len(QuestionAt(q2, place).answers)
                /\ QuestionAt(q2, place).answers[k].feedback
                       = QuestionAt(q, place).answers[k].feedback

\* C20: in the state of parse_feedback a feedback line raises a
\* TransitionError, so that an answer gets at most one feedback line and a
\* feedback, once set, is never replaced; a blank line keeps the state and
\* the quiz; an answer line appends an answer and moves to parse_answer; a
\* code fence and a line of plain text raise a TransitionError.
C20_InFeedback ==
    [][ /\ (TakesLine /\ state = "PARSE_FEEDBACK") =>
               LET row == md_row' IN
               /\ is_feedback(row) => Rejects
               /\ is_blank(row) => (Accepts("PARSE_FEEDBACK") /\ quiz' = quiz)
               /\ is_answer(row) => (Accepts("PARSE_ANSWER") /\ AppendsAnswer(quiz, quiz', row))
               /\ (is_blockcode(row) \/ IsOther(row)) => Rejects
        /\ KeepsFeedback(quiz, quiz') ]_vars

C20_Witness ==
    /\ pc = "error"
    /\ state = "PARSE_FEEDBACK"
    /\ is_feedback(md_row)
    /\ Len(CurrentQuestion(quiz).answers) = 1
    /\ CurrentQuestion(quiz).answers[1].feedback = Some(<<"f">>)

\* C21 as stated: a line of plain text taken in the state of parse_header or
\* in the state of start begins a question whose text is that line, and
\* moves to parse_question.
C21_TextBeginsQuestion ==
    [][ (TakesLine /\ state \in {"START", "PARSE_HEADER"} /\ IsOther(md_row')) =>
            /\ Accepts("PARSE_QUESTION")
            /\ BeginsQuestion(quiz, quiz', md_row' \o <<NEW_LINE>>) ]_vars

\* C21 as amended: a line of plain text taken in the state of parse_header
\* begins a question whose text is that line, and moves to parse_question;
\* taken in the state of start it raises the TransitionError "Expecting a
\* header or a question" and begins nothing.
C21_TextBeginsQuestionInHeader ==
    [][ (TakesLine /\ IsOther(md_row')) =>
            /\ state = "PARSE_HEADER" =>
                   /\ Accepts("PARSE_QUESTION")
                   /\ BeginsQuestion(quiz, quiz', md_row' \o <<NEW_LINE>>)
            /\ state = "START" =>
                   /\ Rejects
                   /\ error' = TransitionError("Expecting a header or a question") ]_vars

C21_Witness ==
    /\ Len(md_lines) = 2
    /\ is_header(Line(1))
    /\ IsOther(Line(2))
    /\ state = "PARSE_QUESTION"
    /\ HasCurrentQuestion(quiz)
    /\ CurrentQuestion(quiz).text = Line(2) \o <<NEW_LINE>>
    /\ CurrentQuestion(quiz).answers = <<>>

\* C22: once validate() has succeeded (is_valid is true and the machine is in
\* its end state), no later step of the parse changes the quiz (sections,
\* question texts, answers, feedbacks and weights stay as validate() left
\* them) or the state, and a line given to the end state is not accepted: the
\* step fails.
C22_NothingAfterValidate ==
    [][ (quiz.is_valid /\ state = "END") =>
            /\ quiz' = quiz
            /\ state' = "END"
            /\ TakesLine => (pc' = "error" /\ error' # NoError) ]_vars

C22_Witness ==
    /\ quiz.is_valid
    /\ state = "END"
    /\ pc = "error"
    /\ error = AttributeError
    /\ Len(md_lines) >= 4
    /\ AllQuestions(quiz) # {}

\* C23: an exporter exists, and files are written, only for a quiz whose
\* is_valid is true; when the constructor is called for a quiz that is not
\* valid (its parse failed, or validate() never ran) it raises an error, no
\* exporter exists and no file is written.
C23_ExportsOnlyValid ==
    /\ (exporter # None \/ main_pc \in {"export", "end"} \/ xml_files # <<>>) =>
           (quiz.is_valid /\ exporter # None /\ exporter[1].quiz = quiz)
    /\ (main_pc # "parse" /\ ~quiz.is_valid) =>
           /\ main_pc = "except"
           /\ main_error.kind = "ValueError"
           /\ exporter = None
           /\ xml_files = <<>>

C23_Witness ==
    /\ main_pc = "except"
    /\ pc = "error"
    /\ quiz.items # <<>>
    /\ AllQuestions(quiz) # {}
    /\ ~quiz.is_valid
    /\ main_error = ValueError("Quiz is not valid. Cannot be exported.")
    /\ xml_files = <<>>

\* C29: the constructor of the exporter accepts every quiz whose parse
\* succeeded: once it has been called for a quiz whose is_valid is true, the
\* exporter exists and no error was raised, whatever the shape of the quiz
\* (a mapping without sections included).
C29_ValidIsAccepted ==
    (main_pc # "parse" /\ quiz.is_valid) =>
        /\ main_pc \in {"export", "end"}
        /\ exporter # None
        /\ main_error = NoError

\* the classes of the grammar a line is in, from the helpers true of it:
\* WrongAnswer is an answer line that is not a CorrectAnswer, Other a line no
\* helper is true of
LineClasses(tests) ==
    (IF "is_blank" \in tests THEN {"Blank"} ELSE {})
    \cup (IF "is_header" \in tests THEN {"Header"} ELSE {})
    \cup (IF "is_question" \in tests THEN {"QuestionDelimiter"} ELSE {})
    \cup (IF "is_correct_answer" \in tests THEN {"CorrectAnswer"} ELSE {})
    \cup (IF "is_answer" \in tests /\ "is_correct_answer" \notin tests
          THEN {"WrongAnswer"} ELSE {})
    \cup (IF "is_feedback" \in tests THEN {"Feedback"} ELSE {})
    \cup (IF "is_blockcode" \in tests THEN {"CodeFenceToggle"} ELSE {})
    \cup (IF "is_eof" \in tests THEN {"EndOfInput"} ELSE {})
    \cup (IF tests = {} THEN {"Other"} ELSE {})

\* the answers of the question the line was consumed for
ConsumedAnswers == CurrentQuestion(quiz).answers

\* C24: every line is in exactly one of the classes Blank, Header,
\* QuestionDelimiter, CorrectAnswer, WrongAnswer, Feedback, CodeFenceToggle,
\* EndOfInput and Other; a line both answer patterns match (a dash, a white
\* space and '!') is recorded by consume_answer as one correct answer whose
\* text is the line after the '!', an answer line without the '!' as one
\* wrong answer, and a line of another class as no answer.
C24_OneClassPerLine ==
    /\ pc \in {"tested", "consumed"} =>
           /\ Cardinality(LineClasses(line_tests)) = 1
           /\ "is_correct_answer" \in line_tests => "is_wrong_answer" \in line_tests
    /\ pc = "consumed" =>
           /\ "is_correct_answer" \in line_tests =>
                  \E k \in 3..Len(md_row) :
                      /\ md_row[k] = "!"
                      /\ md_row[k - 2] = "-"
                      /\ ConsumedAnswers = <<NewAnswer(Rest(md_row, k + 1), TRUE)>>
           /\ LineClasses(line_tests) = {"WrongAnswer"} =>
                  \E k \in 2..Len(md_row) :
                      /\ md_row[k - 1] = "-"
                      /\ ConsumedAnswers = <<NewAnswer(Rest(md_row, k + 1), FALSE)>>
           /\ "is_answer" \notin line_tests => ConsumedAnswers = <<>>

C24_Witness ==
    /\ pc = "consumed"
    /\ md_row = <<"-", " ", "!", "E">>
    /\ line_tests = {"is_correct_answer", "is_wrong_answer", "is_answer"}
    /\ ConsumedAnswers = <<NewAnswer(<<"E">>, TRUE)>>

\* C25: in every reachable state of the parser, when the machine is in the
\* state of parse_answer or of parse_feedback the current question has at
\* least one answer (consume_feedback finds a last answer), and every
\* question the parser has moved past has at least one answer.
C25_AnswerStatesHaveAnswer ==
    /\ state \in {"PARSE_ANSWER", "PARSE_FEEDBACK"} =>
           /\ HasCurrentQuestion(quiz)
           /\ CurrentQuestion(quiz).answers # <<>>
           /\ error # IndexError
    /\ \A place \in AllQuestions(quiz) :
           Some(place) # quiz.current_question => QuestionAt(quiz, place).answers # <<>>

C25_Witness ==
    /\ state = "PARSE_FEEDBACK"
    /\ pc = "loop"
    /\ Cardinality(AllQuestions(quiz)) = 2
    /\ CurrentQuestion(quiz).answers[Len(CurrentQuestion(quiz).answers)].feedback # None

\* C27: only the "EOF" that parse() appends after the lines of the file is
\* the end of input: the machine is in its end state (and the quiz valid)
\* only when the loop has taken that last element, a parse that ends without
\* an error ends in the end state, and a parse that ends with an error ends
\* with a TransitionError, also when a line of the file is the text "EOF".
C27_EndOnlyAtSentinel ==
    /\ (state = "END" \/ quiz.is_valid) => at_end
    /\ pc = "done" => (state = "END" /\ at_end)
    /\ pc = "error" => error.kind = "TransitionError"

\* C28: no question is lost: when validate() has succeeded at the "EOF" that
\* parse() appended, every question
\* the parse began is in the section list of exactly one caption of the
\* mapping, the questions before the first header and the questions of a
\* caption that occurs twice included.
C28_NoQuestionLost ==
    (quiz.is_valid /\ at_end) =>
        \A place \in AllQuestions(quiz) :
            Cardinality({i \in 1..Len(quiz.items) : quiz.items[i].value = place[1]}) = 1

\* the code elements the inline-code pass makes of the text
CodeElements(text) ==
    LET matches == CodeMatches(text, 0) IN
    { _replace_single_line_code(Slice(text, matches[k][1] + 1, matches[k][2] - 1)) :
          k \in 1..Len(matches) }

\* C26: the later passes do not change what the inline-code pass wrote: every
\* code element it makes of the text of an answer (the contents of the span
\* with its entities, between <code> and </code>) is in the text handed to
\* markdown() as it was written, a '$' pair or an emoticon inside it included.
C26_CodeSpansReachMarkdown ==
    rendered # None =>
        \A element \in CodeElements(answer_text) :
            Contains(rendered[1].cdata.markdown, element)

-----------------------------------------------------------------------------
(* Properties of the order of the output *)

\* what tells an element of the output from the others: the caption of a
\* category, the position of a question in its section, the text of an answer
Shape(element) ==
    CASE element.kind = "category" -> <<"category", element.text>>
      [] element.kind = "question" -> <<"question", element.index_part>>
      [] element.kind = "answer" -> <<"answer", element.text>>

RECURSIVE Flatten(_)
Flatten(seqs) == IF seqs = <<>> THEN <<>> ELSE Head(seqs) \o Flatten(Tail(seqs))

\* the elements serialisation writes for the sections of the mapping, in the
\* order it writes them
OutputOrder(q) ==
    LET all == Flatten(SectionsToXml(q, 1)) IN [k \in 1..Len(all) |-> Shape(all[k])]

\* the current section is a section of the mapping
SectionIsMapped(q) == \E i \in 1..Len(q.items) : q.items[i].value = q.section

\* C12: the order of the sections, of the questions of a section and of the
\* answers of a question in the output is the order of their lines in the
\* input: a line the parser accepts adds at most one element, after all the
\* elements of the lines before it (the category of a section it begins, the
\* question it begins, or the answer it appends), and moves or removes none.
C12_InputOrder ==
    [][ (TakesLine /\ error' = NoError /\ SectionIsMapped(quiz'))
        => LET old == OutputOrder(quiz)
               new == OutputOrder(quiz')
           IN  IF quiz'.section # quiz.section
               THEN new = Append(old, <<"category", get_header(md_row')[1]>>)
               ELSE IF quiz'.current_question # quiz.current_question
               THEN new = Append(old, <<"question", quiz'.current_question[1][2]>>)
               ELSE IF /\ HasCurrentQuestion(quiz)
                       /\ Len(CurrentQuestion(quiz').answers) > Len(CurrentQuestion(quiz).answers)
               THEN new = Append(old, <<"answer",
                          CurrentQuestion(quiz').answers[Len(CurrentQuestion(quiz').answers)].text>>)
               ELSE new = old ]_vars

-----------------------------------------------------------------------------
(* Properties of validation *)

\* the questions validation has given their derived fields
ScoredQuestions(q) ==
    {place \in AllQuestions(q) : QuestionAt(q, place).correct_count # None}

Abs(x) == IF x < 0 THEN -x ELSE x

\* w is the multiple of 10^-7 nearest to 100 / n
IsHundredOverN(w, n) == 2 * Abs(n * w - 100 * WeightUnit) <= n

RECURSIVE SumCorrectWeights(_)
SumCorrectWeights(answers) ==
    IF answers = <<>> THEN 0
    ELSE (IF answers[1].correct THEN answers[1].weight[1] ELSE 0)
             + SumCorrectWeights(Tail(answers))

\* C4: after a successful validation, in every question with correct_count
\* n each correct answer weighs 100/n rounded to 7 decimal digits, the
\* weights of the correct answers add up to 100 within the rounding error
\* (half a unit of the 7th digit for each of them), and to exactly 100 when
\* n divides 100.
C4_CorrectWeights ==
    quiz.is_valid =>
        \A place \in ScoredQuestions(quiz) :
            LET question == QuestionAt(quiz, place)
                n == question.correct_count[1]
            IN  /\ \A a \in 1..Len(question.answers) :
                       question.answers[a].correct =>
                           /\ question.answers[a].weight # None
                           /\ IsHundredOverN(question.answers[a].weight[1], n)
                /\ 2 * Abs(SumCorrectWeights(question.answers) - 100 * WeightUnit) <= n
                /\ (100 % n = 0 => SumCorrectWeights(question.answers) = 100 * WeightUnit)

C4_Witness ==
    /\ quiz.is_valid
    /\ \E place \in ScoredQuestions(quiz) :
           /\ QuestionAt(quiz, place).correct_count = Some(3)
           /\ SumCorrectWeights(QuestionAt(quiz, place).answers) # 100 * WeightUnit

\* C5: after a parse that ended with a successful validation, every
\* incorrect answer weighs 0 when its question has more than one correct
\* answer and -penalty x 100 when it has exactly one, penalty being the
\* configured fraction (0.25 gives -25).
C5_IncorrectWeights ==
    (pc = "done" /\ quiz.is_valid) =>
        \A place \in ScoredQuestions(quiz) :
            LET question == QuestionAt(quiz, place)
                n == question.correct_count[1]
            IN  \A a \in 1..Len(question.answers) :
                    ~question.answers[a].correct =>
                        /\ question.answers[a].weight # None
                        /\ question.answers[a].weight[1] =
                               IF n > 1 THEN 0 ELSE -(quiz.config * 100)

\* the question has none of the fields validation derives
Unscored(question) ==
    /\ question.single = None
    /\ question.correct_count = None
    /\ \A a \in 1..Len(question.answers) : question.answers[a].weight = None

\* C11: validate() called on a document in which some question of a section
\* has no correct answer raises the QuizError, leaves is_valid false, and
\* leaves no question of any section with single, correct_count or an answer
\* weight, wherever the question without a correct answer stands.
C11_ValidateAtomic ==
    ( /\ pc = "validated"
      /\ \E place \in MappedQuestions(quiz) :
             CorrectAnswerCount(QuestionAt(quiz, place).answers) = 0 ) =>
        /\ error.kind = "QuizError"
        /\ ~quiz.is_valid
        /\ \A place \in AllQuestions(quiz) : Unscored(QuestionAt(quiz, place))

-----------------------------------------------------------------------------
(* Properties of the emoticon neutralisation *)

\* C6: applying _sanitize_moodle_emoticons to its own result changes nothing.
C6_SanitizeIdempotent == Len(emo_out) >= 2 => emo_out[2] = emo_out[1]

-----------------------------------------------------------------------------
(* Properties of the code block, the end of input and feedback *)

\* C7: in the state of parse_question_codeblock every line of the file is
\* appended to the text of the current question, whatever it reads; the state
\* becomes that of parse_question on a fence and stays otherwise; only the
\* "EOF" appended after the lines of the file raises a TransitionError.
C7_CodeBlockTakesEveryLine ==
    [][ (TakesLine /\ state = "PARSE_QUESTION_CODEBLOCK" /\ ~at_end')
        => ( /\ error' = NoError
             /\ pc' = "loop"
             /\ quiz' = SetCurrentQuestion(quiz,
                    [CurrentQuestion(quiz) EXCEPT !.text = @ \o md_row' \o <<NEW_LINE>>])
             /\ state' = IF is_blockcode(md_row') THEN "PARSE_QUESTION"
                         ELSE "PARSE_QUESTION_CODEBLOCK" ) ]_vars

\* the number of the last fence among the lines taken, 0 when there is none:
\* in the state of parse_question_codeblock it is the fence that opened the
\* block, since a later fence would have closed it
OpeningFence ==
    LET fences == {i \in 1..Len(md_lines) : is_blockcode(StripLineEnd(md_lines[i]))}
    IN  IF fences = {} THEN 0
        ELSE CHOOSE i \in fences : \A j \in fences : j <= i

\* C8 as stated: when the end of input is reached in an open code block, the
\* parse ends with a TransitionError whose line number is that of the line
\* after the opening fence.
C8_ErrorAtLineAfterFence ==
    (state = "PARSE_QUESTION_CODEBLOCK" /\ at_end) =>
        /\ pc = "error"
        /\ error.kind = "TransitionError"
        /\ line_number = OpeningFence + 1

\* C8 as amended: when the parse ends in an open code block, it ends with the
\* TransitionError "Expecting closing codeblock", whose line number is that of
\* the first line after the opening fence that reads EOF: the line the loop
\* took last.
C8_ErrorAtEofLine ==
    (state = "PARSE_QUESTION_CODEBLOCK" /\ pc # "loop") =>
        /\ pc = "error"
        /\ error = TransitionError("Expecting closing codeblock")
        /\ OpeningFence >= 1
        /\ line_number > OpeningFence
        /\ line_number = Len(md_lines)
        /\ is_eof(StripLineEnd(md_lines[line_number]))
        /\ \A i \in (OpeningFence + 1)..(line_number - 1) :
               ~is_eof(StripLineEnd(md_lines[i]))

C8_Witness ==
    /\ state = "PARSE_QUESTION_CODEBLOCK"
    /\ pc = "error"
    /\ at_end
    /\ line_number > OpeningFence + 1

\* C9 as stated: when the end of input is reached in the state of
\* parse_answer or parse_feedback while the current question has no correct
\* answer, the parse fails with the QuizError of validation, which names the
\* text of that question.
C9_QuizErrorAtEnd ==
    ( /\ at_end
      /\ state \in {"PARSE_ANSWER", "PARSE_FEEDBACK"}
      /\ HasCurrentQuestion(quiz) /\ ~CurrentHasCorrect(quiz) ) =>
        /\ pc = "error"
        /\ error = QuizError(CurrentQuestion(quiz).text)

\* C9 as amended: when the end of input is reached while the current question
\* has no correct answer, the parse fails with a TransitionError at the line
\* of the end of input (in the states of parse_answer and parse_feedback:
\* "Expecting at least one correct answer in previous question"), and is_valid
\* stays false.
C9_TransitionErrorAtEnd ==
    (at_end /\ HasCurrentQuestion(quiz) /\ ~CurrentHasCorrect(quiz)) =>
        /\ pc = "error"
        /\ error.kind = "TransitionError"
        /\ (state \in {"PARSE_ANSWER", "PARSE_FEEDBACK"} =>
               error.msg = "Expecting at least one correct answer in previous question")
        /\ line_number = Len(md_lines)
        /\ ~quiz.is_valid

C9_Witness ==
    /\ at_end
    /\ pc = "error"
    /\ state = "PARSE_ANSWER"
    /\ HasCurrentQuestion(quiz)
    /\ CurrentQuestion(quiz).answers # <<>>
    /\ ~CurrentHasCorrect(quiz)

\* C10: a feedback line accepted in the state of parse_answer sets the
\* feedback of the last answer of the current question to the text after
\* '>', and changes nothing else: not the other answers of the question,
\* not the other questions, not the rest of the quiz.
C10_FeedbackOnLastAnswer ==
    [][ ( /\ TakesLine
          /\ state = "PARSE_ANSWER"
          /\ is_feedback(md_row') /\ ~is_blank(md_row') /\ ~is_answer(md_row')
          /\ error' = NoError )
        => LET old == CurrentQuestion(quiz)
               new == CurrentQuestion(quiz')
               n == Len(old.answers)
           IN  /\ n >= 1
               /\ state' = "PARSE_FEEDBACK"
               /\ [quiz' EXCEPT !.heap = quiz.heap] = quiz
               /\ Len(quiz'.heap) = Len(quiz.heap)
               /\ \A l \in 1..Len(quiz.heap) : Len(quiz'.heap[l]) = Len(quiz.heap[l])
               /\ \A place \in AllQuestions(quiz) :
                      place # quiz.current_question[1] =>
                          QuestionAt(quiz', place) = QuestionAt(quiz, place)
               /\ [new EXCEPT !.answers = old.answers] = old
               /\ Len(new.answers) = n
               /\ \A k \in 1..(n - 1) : new.answers[k] = old.answers[k]
               /\ new.answers[n].feedback = Some(Rest(md_row', LeadingSpaces(md_row') + 2))
               /\ [new.answers[n] EXCEPT !.feedback = old.answers[n].feedback] = old.answers[n]
      ]_vars

C10_Witness ==
    /\ state = "PARSE_FEEDBACK"
    /\ is_feedback(md_row)
    /\ HasCurrentQuestion(quiz)
    /\ Len(CurrentQuestion(quiz).answers) >= 2
    /\ CurrentQuestion(quiz).answers[Len(CurrentQuestion(quiz).answers)].feedback = Some(<<"f">>)
    /\ CurrentQuestion(quiz).answers[1].feedback = None

-----------------------------------------------------------------------------
====
